---------------------------- MODULE Spec2Model ----------------------------
(***************************************************************************)
(* A state-machine model of src/src/safe_operations.rs: the typestate      *)
(* Repository<Protected> / Repository<Unprotected>, the terminal values    *)
(* FilteredRepository and ResetRepository, the UserConsent capability and  *)
(* the SafetyGate that mints it and keeps the consent log.                 *)
(*                                                                         *)
(* A binding h of the owner holds one value at a time.  A method taking    *)
(* `self` by value moves the value out of the binding and the value it     *)
(* returns is bound in its place (`let repo = repo.remove_protection(..)`);*)
(* a method taking `&self` leaves the binding as it is.  Which methods can *)
(* be called on a value is decided by the impl block of the value's type.  *)
(***************************************************************************)
EXTENDS Integers, Sequences, FiniteSets, TLC

\* ------------------------------------------------------------------ bounds

\* Number of UserConsent values the gate mints before the model stops minting.
MaxConsents == 3

\* ------------------------------------------------------------------ inputs

\* The owner's bindings: the two repositories of simulate_incident.
Handles == {"gov", "anima"}
\* The (name, path, total_commits) a repository is opened with; either binding
\* may be opened with either.
OpenInputs == {<<"governance-mcp-v1", "/repos/gov", 549>>,
               <<"anima-mcp", "/repos/anima", 334>>}
Descriptions == {"Remove branch protection on 'my-repo' to allow force-push",
                 "Force-push 'my-repo' to origin/main, overwriting remote history"}
Messages == {"fix: update config"}
Callbacks == {"strip co-authored-by"}

\* ------------------------------------------------------------------- state

VARIABLES
    repo,         \* binding -> the value it holds (NoValue before open)
    consent_log,  \* SafetyGate.consent_log
    consents,     \* the UserConsent values in existence, in minting order
    ret,          \* the String returned by the last call ("" when it returns none)
    stdout,       \* the lines the last call printed
    call,         \* history: the last call made (method, binding, consent, input);
                  \*   consent is the index in consents of the one passed, 0 for none
    opened,       \* history: binding -> the arguments it was opened with
    spent,        \* history: the consents a consent-taking call has accepted
    trip,         \* history: binding -> how far along open/remove/restore it is
    moved_from,   \* binding -> what can still be used where a call took `self` from
    flow          \* history: how many steps of the legitimate workflow the calls
                  \*   made so far have completed, Len(Workflow) + 1 once they left it

vars == <<repo, consent_log, consents, ret, stdout, call, opened, spent, trip,
          moved_from, flow>>

\* ------------------------------------------------------------------ values

\* A binding that holds nothing (not opened yet).
NoValue == [type |-> "None"]

\* The call is on no binding (a call on the gate).
NoHandle == "none"

\* _token: 0xDEAD_BEEF as its two 16-bit halves (0xDEAD, 0xBEEF).
DEAD_BEEF == <<57005, 48879>>

IsRepository(v) == v.type = "Repository"
IsProtected(v) == IsRepository(v) /\ v._state = "Protected"
IsUnprotected(v) == IsRepository(v) /\ v._state = "Unprotected"
IsFiltered(v) == v.type = "FilteredRepository"
IsReset(v) == v.type = "ResetRepository"

\* ---------------------------------------------------- impl blocks (methods)

\* Mutant: force_push also written in impl Repository<Protected>.
ProtectedMethods_WithForcePush ==
    {"status", "commit", "push", "remove_protection", "force_push"}

ProtectedMethods == {"status", "commit", "push", "remove_protection"}

\* Mutant: restore_protection missing from impl Repository<Unprotected>.
UnprotectedMethods_WithoutRestore == {"force_push", "filter_repo", "reset_hard"}

UnprotectedMethods == {"force_push", "filter_repo", "reset_hard", "restore_protection"}

\* Mutant: reset_hard also written in impl FilteredRepository.
FilteredMethods_WithResetHard == {"summary", "reset_hard"}

FilteredMethods == {"summary"}

\* Mutant: push also written in impl ResetRepository.
ResetMethods_WithPush == {"summary", "push"}

ResetMethods == {"summary"}

\* The methods the compiler resolves on a value of v's type.
Methods(v) ==
    IF IsProtected(v) THEN ProtectedMethods
    ELSE IF IsUnprotected(v) THEN UnprotectedMethods
    ELSE IF IsFiltered(v) THEN FilteredMethods
    ELSE IF IsReset(v) THEN ResetMethods
    ELSE {}

HasMethod(v, m) == m \in Methods(v)

\* Mutant: remove_protection takes `&self`.
RefSelfMethods_WithRemoveProtection ==
    {"status", "commit", "push", "force_push", "summary", "remove_protection"}

\* The methods whose receiver is `&self`; the others take `self` by value.
RefSelfMethods == {"status", "commit", "push", "force_push", "summary"}

\* The methods that can be called through a shared reference `&v`: a method
\* taking `self` cannot move the value out from behind the reference.
BorrowedMethods(v) == Methods(v) \cap RefSelfMethods

\* Mutant: a consent that no request_consent returned (index 0) can be passed.
ConsentsInExistence_Forged == 0..Len(consents)

\* Mutant: only a consent minted for the force-push description is accepted.
ConsentsInExistence_ForcePushOnly ==
    {i \in 1..Len(consents) :
        consents[i]._operation
            = "Force-push 'my-repo' to origin/main, overwriting remote history"}

\* The consents a caller can pass: UserConsent has private fields and no
\* constructor, so the only values are those request_consent returned.
ConsentsInExistence == 1..Len(consents)

\* ------------------------------------------------- Repository<Protected>

\* Mutant: open tags the repository Unprotected.
open_Unprotected(name, path, total_commits) ==
    [type |-> "Repository", name |-> name, path |-> path,
     total_commits |-> total_commits, _state |-> "Unprotected"]

open(name, path, total_commits) ==
    [type |-> "Repository", name |-> name, path |-> path,
     total_commits |-> total_commits, _state |-> "Protected"]

\* Mutant: status, commit and push take `self` by value; the binding is left
\* moved-from.
ref_self_Moved(self) == NoValue

\* Mutant: the value can still be used where it was taken from (as if the
\* method took `&self`, or Repository were Copy).
self_by_value_Copied(self) == self

\* `self`: remove_protection, filter_repo, reset_hard and restore_protection take
\* the value; nothing usable is left where it was.
self_by_value(self) == NoValue

\* `&self`: status, commit and push borrow the value; the binding keeps it.
ref_self(self) == self

status(self) ==
    self.name \o ": " \o ToString(self.total_commits) \o " commits, protected"

commit(self, message) == "[" \o self.name \o "] committed: " \o message

push(self) == "[" \o self.name \o "] pushed to origin/main"

\* Mutant: name and path change places.
remove_protection_Swapped(self, consent) ==
    [type |-> "Repository", name |-> self.path, path |-> self.name,
     total_commits |-> self.total_commits, _state |-> "Unprotected"]

remove_protection(self, consent) ==
    [type |-> "Repository", name |-> self.name, path |-> self.path,
     total_commits |-> self.total_commits, _state |-> "Unprotected"]

remove_protection_stdout(self) ==
    <<"  [CONSENT] Branch protection removed on '" \o self.name
        \o "' with user approval.">>

\* ----------------------------------------------- Repository<Unprotected>

\* Mutant: force_push takes `self` by value and the binding is left moved-from.
force_push_self_Moved(self) == NoValue

\* force_push takes `&self`: the binding keeps the value.
force_push_self(self) == self

force_push(self, consent) == "[" \o self.name \o "] force-pushed to origin/main"

force_push_stdout(self) ==
    <<"  [CONSENT] Force-push to '" \o self.name \o "' with user approval.">>

\* Mutant: the rewritten count is not taken from the repository.
filter_repo_ZeroCount(self, callback, consent) ==
    [type |-> "FilteredRepository", name |-> self.name, path |-> self.path,
     rewritten_commits |-> 0]

filter_repo(self, callback, consent) ==
    [type |-> "FilteredRepository", name |-> self.name, path |-> self.path,
     rewritten_commits |-> self.total_commits]

filter_repo_stdout(self, callback) ==
    <<"  [CONSENT] History rewrite on '" \o self.name
        \o "' with user approval. Callback: " \o callback>>

\* Mutant: the ResetRepository is built without the repository's path.
reset_hard_PathDropped(self, consent) ==
    [type |-> "ResetRepository", name |-> self.name, path |-> ""]

\* Mutant: reset_hard hands the repository back instead of a ResetRepository.
reset_hard_KeepsRepository(self, consent) == self

reset_hard(self, consent) ==
    [type |-> "ResetRepository", name |-> self.name, path |-> self.path]

reset_hard_stdout(self) ==
    <<"  [CONSENT] Hard reset on '" \o self.name \o "' with user approval.">>

\* Mutant: the commit count is not carried over.
restore_protection_DropsCount(self) ==
    [type |-> "Repository", name |-> self.name, path |-> self.path,
     total_commits |-> 0, _state |-> "Protected"]

restore_protection(self) ==
    [type |-> "Repository", name |-> self.name, path |-> self.path,
     total_commits |-> self.total_commits, _state |-> "Protected"]

restore_protection_stdout(self) ==
    <<"  [OK] Branch protection restored on '" \o self.name \o "'.">>

\* ------------------------------------------------------- terminal values

filtered_summary(self) ==
    "[" \o self.name \o "] history rewritten: " \o ToString(self.rewritten_commits)
        \o " commits now have new SHAs. Original history is unreachable."

reset_summary(self) ==
    "[" \o self.name \o "] reset to HEAD. All uncommitted work is permanently lost."

\* ------------------------------------------------------------ SafetyGate

\* format!("GRANTED: {}", operation_description)
GrantedPrefix == "GRANTED: "

granted(operation_description) == GrantedPrefix \o operation_description

\* The description a log entry was written for: the entry without its prefix.
entry_description(entry) == SubSeq(entry, Len(GrantedPrefix) + 1, Len(entry))

\* Mutant: the record is inserted at the front of the log.
request_consent_log_AtFront(log, operation_description) ==
    <<granted(operation_description)>> \o log

\* Mutant: the log is replaced by the new record.
request_consent_log_Reset(log, operation_description) ==
    <<granted(operation_description)>>

\* The consent_log after request_consent.
request_consent_log(log, operation_description) ==
    Append(log, granted(operation_description))

\* Mutant: the consent is minted without the description.
request_consent_Unbound(operation_description) ==
    [_operation |-> "", _token |-> DEAD_BEEF]

\* The UserConsent request_consent returns.
request_consent(operation_description) ==
    [_operation |-> operation_description, _token |-> DEAD_BEEF]

request_consent_stdout(operation_description) ==
    <<"  [GATE] User consented to: " \o operation_description>>

\* Mutant: the trail is listed newest first.
audit_lines_Reversed(log, i) ==
    [k \in 1..Len(log) |->
        "    " \o ToString(k) \o ". " \o log[Len(log) + 1 - k]]

RECURSIVE audit_lines(_, _)
audit_lines(log, i) ==
    IF i > Len(log) THEN <<>>
    ELSE <<"    " \o ToString(i) \o ". " \o log[i]>> \o audit_lines(log, i + 1)

print_audit_log_stdout(log) ==
    <<"", "  Consent audit trail (" \o ToString(Len(log)) \o " entries):">>
        \o audit_lines(log, 1)

\* ------------------------------------------------------------------- Init

\* SafetyGate::new(): an empty log; no repository opened, no consent minted.
Init ==
    /\ repo = [h \in Handles |-> NoValue]
    /\ consent_log = <<>>
    /\ consents = <<>>
    /\ ret = ""
    /\ stdout = <<>>
    /\ call = [op |-> "new", h |-> NoHandle, consent |-> 0, input |-> <<>>]
    /\ opened = [h \in Handles |-> <<>>]
    /\ spent = {}
    /\ trip = [h \in Handles |-> "none"]
    /\ moved_from = [h \in Handles |-> NoValue]
    /\ flow = 0

\* The calls of demonstrate_legitimate_workflow that change the repository or
\* the gate, in order; between them it calls status and print_audit_log.
Workflow ==
    <<"open", "request_consent", "remove_protection", "request_consent",
      "force_push", "restore_protection">>

WorkflowReads == {"status", "print_audit_log"}

\* The workflow passes each consent-taking call the consent minted just before.
workflow_flow(op, c) ==
    IF op \in WorkflowReads THEN flow
    ELSE IF /\ flow < Len(Workflow)
            /\ op = Workflow[flow + 1]
            /\ (c # 0 => c = IF op = "request_consent" THEN Len(consents) + 1
                                                        ELSE Len(consents))
         THEN flow + 1
         ELSE Len(Workflow) + 1

Called(op, h, c, input) ==
    /\ call' = [op |-> op, h |-> h, consent |-> c, input |-> input]
    /\ flow' = workflow_flow(op, c)

\* ---------------------------------------------------------------- actions

\* let repo = Repository::open(name, path, total_commits);
Open(h, name, path, total_commits) ==
    /\ repo[h] = NoValue
    /\ repo' = [repo EXCEPT ![h] = open(name, path, total_commits)]
    /\ ret' = ""
    /\ stdout' = <<>>
    /\ Called("open", h, 0, <<name, path, total_commits>>)
    /\ opened' = [opened EXCEPT ![h] = <<name, path, total_commits>>]
    /\ trip' = [trip EXCEPT ![h] = "opened"]
    /\ UNCHANGED <<moved_from, consent_log, consents, spent>>

\* repo.status()
Status(h) ==
    /\ HasMethod(repo[h], "status")
    /\ repo' = [repo EXCEPT ![h] = ref_self(repo[h])]
    /\ ret' = status(repo[h])
    /\ stdout' = <<>>
    /\ Called("status", h, 0, <<>>)
    /\ trip' = [trip EXCEPT ![h] = "other"]
    /\ UNCHANGED <<moved_from, consent_log, consents, opened, spent>>

\* repo.commit(message)
Commit(h, message) ==
    /\ HasMethod(repo[h], "commit")
    /\ repo' = [repo EXCEPT ![h] = ref_self(repo[h])]
    /\ ret' = commit(repo[h], message)
    /\ stdout' = <<>>
    /\ Called("commit", h, 0, <<message>>)
    /\ trip' = [trip EXCEPT ![h] = "other"]
    /\ UNCHANGED <<moved_from, consent_log, consents, opened, spent>>

\* repo.push()
Push(h) ==
    /\ HasMethod(repo[h], "push")
    /\ repo' = [repo EXCEPT ![h] = ref_self(repo[h])]
    /\ ret' = push(repo[h])
    /\ stdout' = <<>>
    /\ Called("push", h, 0, <<>>)
    /\ trip' = [trip EXCEPT ![h] = "other"]
    /\ UNCHANGED <<moved_from, consent_log, consents, opened, spent>>

\* Mutant: the grant is written to the consent log when the consent is used.
RemoveProtection_Records(h, c) ==
    /\ HasMethod(repo[h], "remove_protection")
    /\ c \in ConsentsInExistence
    /\ repo' = [repo EXCEPT ![h] = remove_protection(repo[h], consents[c])]
    /\ ret' = ""
    /\ stdout' = remove_protection_stdout(repo[h])
    /\ Called("remove_protection", h, c, <<>>)
    /\ spent' = spent \cup {c}
    /\ trip' = [trip EXCEPT ![h] = IF trip[h] = "opened" THEN "removed" ELSE "other"]
    /\ moved_from' = [moved_from EXCEPT ![h] = self_by_value(repo[h])]
    /\ consent_log' = Append(consent_log, granted(consents[c]._operation))
    /\ UNCHANGED <<consents, opened>>

\* let repo = repo.remove_protection(&consent);
RemoveProtection(h, c) ==
    /\ HasMethod(repo[h], "remove_protection")
    /\ c \in ConsentsInExistence
    /\ repo' = [repo EXCEPT ![h] = remove_protection(repo[h], consents[c])]
    /\ ret' = ""
    /\ stdout' = remove_protection_stdout(repo[h])
    /\ Called("remove_protection", h, c, <<>>)
    /\ spent' = spent \cup {c}
    /\ trip' = [trip EXCEPT ![h] = IF trip[h] = "opened" THEN "removed" ELSE "other"]
    /\ moved_from' = [moved_from EXCEPT ![h] = self_by_value(repo[h])]
    /\ UNCHANGED <<consent_log, consents, opened>>

\* repo.force_push(&consent)
ForcePush(h, c) ==
    /\ HasMethod(repo[h], "force_push")
    /\ c \in ConsentsInExistence
    /\ repo' = [repo EXCEPT ![h] = force_push_self(repo[h])]
    /\ ret' = force_push(repo[h], consents[c])
    /\ stdout' = force_push_stdout(repo[h])
    /\ Called("force_push", h, c, <<>>)
    /\ spent' = spent \cup {c}
    /\ trip' = [trip EXCEPT ![h] = "other"]
    /\ UNCHANGED <<moved_from, consent_log, consents, opened>>

\* Mutant: the rewrite takes every Unprotected repository the owner holds, not
\* only the one it was called on.
FilterRepo_EveryRepository(h, callback, c) ==
    /\ HasMethod(repo[h], "filter_repo")
    /\ c \in ConsentsInExistence
    /\ repo' = [g \in Handles |->
                   IF IsUnprotected(repo[g])
                   THEN filter_repo(repo[g], callback, consents[c])
                   ELSE repo[g]]
    /\ ret' = ""
    /\ stdout' = filter_repo_stdout(repo[h], callback)
    /\ Called("filter_repo", h, c, <<callback>>)
    /\ spent' = spent \cup {c}
    /\ trip' = [trip EXCEPT ![h] = "other"]
    /\ moved_from' = [moved_from EXCEPT ![h] = self_by_value(repo[h])]
    /\ UNCHANGED <<consent_log, consents, opened>>

\* let filtered = repo.filter_repo(callback, &consent);
FilterRepo(h, callback, c) ==
    /\ HasMethod(repo[h], "filter_repo")
    /\ c \in ConsentsInExistence
    /\ repo' = [repo EXCEPT ![h] = filter_repo(repo[h], callback, consents[c])]
    /\ ret' = ""
    /\ stdout' = filter_repo_stdout(repo[h], callback)
    /\ Called("filter_repo", h, c, <<callback>>)
    /\ spent' = spent \cup {c}
    /\ trip' = [trip EXCEPT ![h] = "other"]
    /\ moved_from' = [moved_from EXCEPT ![h] = self_by_value(repo[h])]
    /\ UNCHANGED <<consent_log, consents, opened>>

\* let reset = repo.reset_hard(&consent);
ResetHard(h, c) ==
    /\ HasMethod(repo[h], "reset_hard")
    /\ c \in ConsentsInExistence
    /\ repo' = [repo EXCEPT ![h] = reset_hard(repo[h], consents[c])]
    /\ ret' = ""
    /\ stdout' = reset_hard_stdout(repo[h])
    /\ Called("reset_hard", h, c, <<>>)
    /\ spent' = spent \cup {c}
    /\ trip' = [trip EXCEPT ![h] = "other"]
    /\ moved_from' = [moved_from EXCEPT ![h] = self_by_value(repo[h])]
    /\ UNCHANGED <<consent_log, consents, opened>>

\* let repo = repo.restore_protection();
RestoreProtection(h) ==
    /\ HasMethod(repo[h], "restore_protection")
    /\ repo' = [repo EXCEPT ![h] = restore_protection(repo[h])]
    /\ ret' = ""
    /\ stdout' = restore_protection_stdout(repo[h])
    /\ Called("restore_protection", h, 0, <<>>)
    /\ trip' = [trip EXCEPT ![h] = IF trip[h] = "removed" THEN "restored" ELSE "other"]
    /\ moved_from' = [moved_from EXCEPT ![h] = self_by_value(repo[h])]
    /\ UNCHANGED <<consent_log, consents, opened, spent>>

agent_with_immutable_borrow_stdout(self) ==
    <<"  Agent reads:   " \o status(self),
      "  Agent commits: " \o commit(self, "fix: update config"),
      "  Agent pushes:  " \o push(self)>>

\* agent_with_immutable_borrow(&repo): the agent is lent a Protected repository
\* and calls status, commit and push through the reference; the owner has the
\* binding back when it returns.
AgentWithImmutableBorrow(h) ==
    /\ IsProtected(repo[h])
    /\ {"status", "commit", "push"} \subseteq BorrowedMethods(repo[h])
    /\ repo' = [repo EXCEPT ![h] = ref_self(ref_self(ref_self(repo[h])))]
    /\ ret' = ""
    /\ stdout' = agent_with_immutable_borrow_stdout(repo[h])
    /\ Called("agent_with_immutable_borrow", h, 0, <<>>)
    /\ trip' = [trip EXCEPT ![h] = "other"]
    /\ UNCHANGED <<moved_from, consent_log, consents, opened, spent>>

\* filtered.summary() / reset.summary()
Summary(h) ==
    /\ HasMethod(repo[h], "summary")
    /\ ret' = IF IsFiltered(repo[h]) THEN filtered_summary(repo[h])
                                     ELSE reset_summary(repo[h])
    /\ stdout' = <<>>
    /\ Called("summary", h, 0, <<>>)
    /\ UNCHANGED <<moved_from, repo, consent_log, consents, opened, spent, trip>>

\* Mutant: minting a consent lowers the protection of every Protected repository.
RequestConsent_LowersProtection(operation_description) ==
    /\ Len(consents) < MaxConsents
    /\ consent_log' = request_consent_log(consent_log, operation_description)
    /\ consents' = Append(consents, request_consent(operation_description))
    /\ ret' = ""
    /\ stdout' = request_consent_stdout(operation_description)
    /\ Called("request_consent", NoHandle, Len(consents) + 1, <<operation_description>>)
    /\ repo' = [h \in Handles |->
                   IF IsProtected(repo[h])
                   THEN remove_protection(repo[h], request_consent(operation_description))
                   ELSE repo[h]]
    /\ UNCHANGED <<moved_from, opened, spent, trip>>

\* let consent = gate.request_consent(operation_description);
RequestConsent(operation_description) ==
    /\ Len(consents) < MaxConsents
    /\ consent_log' = request_consent_log(consent_log, operation_description)
    /\ consents' = Append(consents, request_consent(operation_description))
    /\ ret' = ""
    /\ stdout' = request_consent_stdout(operation_description)
    /\ Called("request_consent", NoHandle, Len(consents) + 1, <<operation_description>>)
    /\ UNCHANGED <<moved_from, repo, opened, spent, trip>>

\* gate.print_audit_log()
PrintAuditLog ==
    /\ ret' = ""
    /\ stdout' = print_audit_log_stdout(consent_log)
    /\ Called("print_audit_log", NoHandle, 0, <<>>)
    /\ UNCHANGED <<moved_from, repo, consent_log, consents, opened, spent, trip>>

Next ==
    \/ \E h \in Handles, in \in OpenInputs : Open(h, in[1], in[2], in[3])
    \/ \E h \in Handles : Status(h)
    \/ \E h \in Handles, message \in Messages : Commit(h, message)
    \/ \E h \in Handles : Push(h)
    \/ \E h \in Handles, c \in 0..MaxConsents : RemoveProtection(h, c)
    \/ \E h \in Handles, c \in 0..MaxConsents : ForcePush(h, c)
    \/ \E h \in Handles, callback \in Callbacks, c \in 0..MaxConsents :
           FilterRepo(h, callback, c)
    \/ \E h \in Handles, c \in 0..MaxConsents : ResetHard(h, c)
    \/ \E h \in Handles : RestoreProtection(h)
    \/ \E h \in Handles : Summary(h)
    \/ \E h \in Handles : AgentWithImmutableBorrow(h)
    \/ \E d \in Descriptions : RequestConsent(d)
    \/ PrintAuditLog

Spec == Init /\ [][Next]_vars

\* ------------------------------------------------------------------ claims

\* The calls that take a &UserConsent.
ConsentTaking == {"remove_protection", "force_push", "filter_repo", "reset_hard"}

\* A step in which a call was made (a repeated call that changes nothing is a
\* stuttering step, which no action property constrains).
Stepped == call' # call

\* The Repository<State> carrying the data the binding was opened with.
AsOpened(h, state) ==
    [type |-> "Repository", name |-> opened[h][1], path |-> opened[h][2],
     total_commits |-> opened[h][3], _state |-> state]

\* C1: on a Protected handle none of force_push, filter_repo, reset_hard is
\* enabled, whatever consents exist; the operations enabled on it are status,
\* commit, push and, with any consent in existence, remove_protection, and no
\* other (not restore_protection, not summary, not a second open).
C1_ProtectedHasNoDestructiveOperation ==
    \A h \in Handles : IsProtected(repo[h]) =>
        /\ ~ENABLED (\E c \in 0..MaxConsents : ForcePush(h, c))
        /\ ~ENABLED (\E cb \in Callbacks, c \in 0..MaxConsents : FilterRepo(h, cb, c))
        /\ ~ENABLED (\E c \in 0..MaxConsents : ResetHard(h, c))
        /\ ~ENABLED RestoreProtection(h)
        /\ ~ENABLED Summary(h)
        /\ ~ENABLED (\E in \in OpenInputs : Open(h, in[1], in[2], in[3]))
        /\ ENABLED Status(h)
        /\ \A m \in Messages : ENABLED Commit(h, m)
        /\ ENABLED Push(h)
        /\ \A c \in 0..MaxConsents :
               (ENABLED RemoveProtection(h, c)) <=> c \in 1..Len(consents)

\* A Protected handle while every consent the model mints is in existence.
C1_Witness ==
    \E h \in Handles : IsProtected(repo[h]) /\ Len(consents) = MaxConsents

\* C2: every UserConsent in existence corresponds to exactly one consent_log
\* entry, the one at its own position, written for its description; and
\* a step that changes the consents in existence is a request_consent that adds
\* exactly one.
C2_ConsentsMatchLog ==
    /\ [](/\ Len(consents) = Len(consent_log)
          /\ \A i \in 1..Len(consents) :
                 /\ consent_log[i] = GrantedPrefix \o consents[i]._operation
                 /\ entry_description(consent_log[i]) = consents[i]._operation)
    /\ [][consents' # consents =>
              /\ call'.op = "request_consent"
              /\ Len(consents') = Len(consents) + 1
              /\ SubSeq(consents', 1, Len(consents)) = consents]_vars

\* Two consents minted for different descriptions, after a consent-taking call.
C2_Witness ==
    /\ Len(consents) >= 2
    /\ consents[1]._operation # consents[2]._operation
    /\ call.op \in ConsentTaking

\* C3: request_consent(desc) is enabled for every desc (below the minting cap of
\* the model), returns a consent bound to desc and appends exactly one record
\* "GRANTED: desc" at the end of the log, leaving the earlier records as they were.
C3_RequestConsentAppendsOne ==
    /\ [](Len(consents) < MaxConsents =>
              \A d \in Descriptions : ENABLED RequestConsent(d))
    /\ [][(call'.op = "request_consent" /\ Stepped) =>
              LET desc == call'.input[1]
                  n == Len(consent_log)
              IN  /\ Len(consent_log') = n + 1
                  /\ SubSeq(consent_log', 1, n) = consent_log
                  /\ consent_log'[n + 1] = "GRANTED: " \o desc
                  /\ entry_description(consent_log'[n + 1]) = desc
                  /\ call'.consent = Len(consents')
                  /\ consents'[call'.consent]._operation = desc]_vars

\* request_consent has just been called on a log that already held a record
\* for another description.
C3_Witness ==
    /\ call.op = "request_consent"
    /\ Len(consent_log) >= 2
    /\ consent_log[Len(consent_log) - 1] # consent_log[Len(consent_log)]

\* C4: the consent log is append-only: at every step the log before the step is
\* a prefix of the log after it.
C4_LogAppendOnly ==
    [][/\ Len(consent_log') >= Len(consent_log)
       /\ SubSeq(consent_log', 1, Len(consent_log)) = consent_log]_vars

\* A log of two different records, after a call on a handle.
C4_Witness ==
    /\ Len(consent_log) >= 2
    /\ consent_log[1] # consent_log[2]
    /\ call.op \in {"restore_protection", "filter_repo", "reset_hard"}

\* C5: no handle starts Unprotected, and a step that makes a handle Unprotected
\* is a remove_protection on that handle, which was Protected, passed a consent
\* in existence whose minting request_consent recorded in the log.
C5_UnprotectedOnlyByRemoveProtection ==
    /\ \A h \in Handles : ~IsUnprotected(repo[h])
    /\ [][\A h \in Handles :
              (IsUnprotected(repo'[h]) /\ ~IsUnprotected(repo[h])) =>
                  /\ IsProtected(repo[h])
                  /\ call'.op = "remove_protection"
                  /\ call'.h = h
                  /\ call'.consent \in 1..Len(consents)
                  /\ call'.consent \in 1..Len(consent_log)
                  /\ consent_log[call'.consent]
                         = granted(consents[call'.consent]._operation)]_vars

\* A handle made Unprotected by remove_protection.
C5_Witness ==
    /\ call.op = "remove_protection"
    /\ IsUnprotected(repo[call.h])

\* C6: each consent-taking call (remove_protection, force_push, filter_repo,
\* reset_hard) is passed a consent that no earlier such call was passed.
C6_EachCallItsOwnConsent ==
    [][(call'.op \in ConsentTaking /\ Stepped) => call'.consent \notin spent]_vars

\* C7: every binding starts empty; a step that brings a handle into a binding is
\* an open on that binding, and open(name, path, total_commits) leaves in it a
\* Protected Repository with exactly that name, path and total_commits.
C7_OpenYieldsProtected ==
    /\ \A h \in Handles : repo[h] = NoValue
    /\ [][/\ \A h \in Handles :
                (repo[h] = NoValue /\ repo'[h] # NoValue) =>
                    (call'.op = "open" /\ call'.h = h)
          /\ (call'.op = "open" /\ Stepped) =>
                /\ repo[call'.h] = NoValue
                /\ repo'[call'.h] =
                       [type |-> "Repository", name |-> call'.input[1],
                        path |-> call'.input[2], total_commits |-> call'.input[3],
                        _state |-> "Protected"]]_vars

\* open has just returned a Protected handle with a non-zero commit count.
C7_Witness ==
    /\ call.op = "open"
    /\ IsProtected(repo[call.h])
    /\ call.input = <<"governance-mcp-v1", "/repos/gov", 549>>

\* C8: after open, remove_protection, restore_protection in a row on a binding,
\* it holds a Protected Repository with the name, path and total_commits given
\* to open.
C8_RoundTrip ==
    \A h \in Handles : trip[h] = "restored" => repo[h] = AsOpened(h, "Protected")

\* A binding on which exactly open, remove_protection, restore_protection ran.
C8_Witness ==
    \E h \in Handles : trip[h] = "restored" /\ call.op = "restore_protection" /\ call.h = h

\* C9: restore_protection is enabled on every Unprotected handle in every
\* reachable state, whatever consents exist; it takes no consent, leaves the
\* handle Protected, mints no consent and leaves the log as it was.
C9_RestoreNeedsNoConsent ==
    /\ [](\A h \in Handles : IsUnprotected(repo[h]) => ENABLED RestoreProtection(h))
    /\ [][(call'.op = "restore_protection" /\ Stepped) =>
              /\ IsUnprotected(repo[call'.h])
              /\ IsProtected(repo'[call'.h])
              /\ call'.consent = 0
              /\ consents' = consents
              /\ consent_log' = consent_log
              /\ spent' = spent]_vars

\* restore_protection has just returned a Protected handle while no consent is
\* left that a call has not been passed already.
C9_Witness ==
    /\ call.op = "restore_protection"
    /\ IsProtected(repo[call.h])
    /\ Len(consents) = Cardinality(spent)

\* C10: force_push leaves every binding as it was, so the handle is still
\* Unprotected with the same name, path and total_commits, and after it
\* restore_protection and, with every consent in existence, force_push,
\* filter_repo and reset_hard are enabled on the handle.
C10_ForcePushNonConsuming ==
    /\ [](call.op = "force_push" =>
              /\ IsUnprotected(repo[call.h])
              /\ ENABLED RestoreProtection(call.h)
              /\ \A c \in 1..Len(consents) :
                     /\ ENABLED ForcePush(call.h, c)
                     /\ ENABLED ResetHard(call.h, c)
                     /\ \A cb \in Callbacks : ENABLED FilterRepo(call.h, cb, c))
    /\ [][(call'.op = "force_push" /\ Stepped) =>
              /\ IsUnprotected(repo[call'.h])
              /\ repo' = repo]_vars

\* force_push has just returned and a consent no call has been passed yet exists
\* for a second force_push.
C10_Witness ==
    /\ call.op = "force_push"
    /\ IsUnprotected(repo[call.h])
    /\ call.consent \in spent
    /\ \E c \in 1..Len(consents) : c \notin spent

\* The terminal values: what filter_repo and reset_hard leave.
IsTerminal(v) == IsFiltered(v) \/ IsReset(v)

\* C11: filter_repo on an Unprotected handle takes the handle and leaves a
\* FilteredRepository with the handle's name and path and with
\* rewritten_commits equal to the handle's total_commits before the call.
C11_FilterRepoCarriesCount ==
    [][(call'.op = "filter_repo" /\ Stepped) =>
           /\ IsUnprotected(repo[call'.h])
           /\ ~IsRepository(repo'[call'.h])
           /\ repo'[call'.h] =
                  [type |-> "FilteredRepository",
                   name |-> repo[call'.h].name,
                   path |-> repo[call'.h].path,
                   rewritten_commits |-> repo[call'.h].total_commits]]_vars

\* filter_repo has just rewritten a repository of 549 commits.
C11_Witness ==
    /\ call.op = "filter_repo"
    /\ IsFiltered(repo[call.h])
    /\ repo[call.h].rewritten_commits = 549

\* C12: reset_hard on an Unprotected handle takes the handle and leaves a
\* ResetRepository with the handle's name and path and no counter; the binding
\* no longer holds an Unprotected repository.
C12_ResetHardConsumes ==
    [][(call'.op = "reset_hard" /\ Stepped) =>
           /\ IsUnprotected(repo[call'.h])
           /\ ~IsUnprotected(repo'[call'.h])
           /\ IsReset(repo'[call'.h])
           /\ DOMAIN repo'[call'.h] = {"type", "name", "path"}
           /\ repo'[call'.h].name = repo[call'.h].name
           /\ repo'[call'.h].path = repo[call'.h].path]_vars

\* reset_hard has just returned a ResetRepository.
C12_Witness ==
    /\ call.op = "reset_hard"
    /\ IsReset(repo[call.h])
    /\ repo[call.h].path = "/repos/anima"

\* C13: filter_repo and reset_hard happen only on a handle that is Unprotected,
\* so never on one an earlier filter_repo or reset_hard took; once a handle is
\* taken it stays taken, and none of filter_repo, reset_hard, force_push is
\* enabled on it with any consent.
C13_ConsumedOnce ==
    /\ [](\A h \in Handles : IsTerminal(repo[h]) =>
              \A c \in 0..MaxConsents :
                  /\ ~ENABLED ForcePush(h, c)
                  /\ ~ENABLED ResetHard(h, c)
                  /\ \A cb \in Callbacks : ~ENABLED FilterRepo(h, cb, c))
    /\ [][/\ (call'.op \in {"filter_repo", "reset_hard"} /\ Stepped) =>
                (IsUnprotected(repo[call'.h]) /\ IsTerminal(repo'[call'.h]))
          /\ \A h \in Handles : IsTerminal(repo[h]) => IsTerminal(repo'[h])]_vars

\* A handle taken by filter_repo while a consent that no call was passed is
\* still at hand for a second consuming call.
C13_Witness ==
    \E h \in Handles :
        /\ IsFiltered(repo[h])
        /\ \E c \in 1..Len(consents) : c \notin spent

\* C14: a FilteredRepository or ResetRepository stays the same value at every
\* later step, and on it only summary is enabled: no call leads back to a
\* Protected or Unprotected repository.
C14_TerminalAbsorbing ==
    /\ [](\A h \in Handles : IsTerminal(repo[h]) =>
              /\ ~ENABLED Push(h)
              /\ ~ENABLED Status(h)
              /\ \A m \in Messages : ~ENABLED Commit(h, m)
              /\ ~ENABLED RestoreProtection(h)
              /\ ~ENABLED (\E in \in OpenInputs : Open(h, in[1], in[2], in[3]))
              /\ ~ENABLED (\E c \in 0..MaxConsents : RemoveProtection(h, c))
              /\ ~ENABLED (\E c \in 0..MaxConsents : ForcePush(h, c))
              /\ ~ENABLED (\E c \in 0..MaxConsents : ResetHard(h, c))
              /\ ~ENABLED (\E cb \in Callbacks, c \in 0..MaxConsents :
                               FilterRepo(h, cb, c))
              /\ ENABLED Summary(h))
    /\ [][\A h \in Handles : IsTerminal(repo[h]) => repo'[h] = repo[h]]_vars

\* summary has just been read from a ResetRepository, with a consent at hand.
C14_Witness ==
    /\ call.op = "summary"
    /\ IsReset(repo[call.h])
    /\ Len(consents) = MaxConsents

\* C16: status, commit and push are enabled on every Protected handle, with or
\* without a consent in existence; each takes no consent and leaves every
\* binding, the consents and the consent log as they were.
C16_SafeOperationsChangeNothing ==
    /\ [](\A h \in Handles : IsProtected(repo[h]) =>
              /\ ENABLED Status(h)
              /\ ENABLED Push(h)
              /\ \A m \in Messages : ENABLED Commit(h, m))
    /\ [][(call'.op \in {"status", "commit", "push"} /\ Stepped) =>
              /\ IsProtected(repo[call'.h])
              /\ repo' = repo
              /\ call'.consent = 0
              /\ consents' = consents
              /\ consent_log' = consent_log
              /\ spent' = spent]_vars

\* commit has just returned on a Protected handle and no consent was ever minted.
C16_Witness ==
    /\ call.op = "commit"
    /\ IsProtected(repo[call.h])
    /\ consents = <<>>
    /\ ret = "[anima-mcp] committed: fix: update config"

\* C20: remove_protection accepts every consent in existence on every Protected
\* handle, and force_push, filter_repo and reset_hard accept every consent in
\* existence on every Unprotected handle, whatever description the consent was
\* minted for and whatever repository that description names.
C20_DescriptionNotBound ==
    \A h \in Handles : \A c \in 1..Len(consents) :
        /\ IsProtected(repo[h]) => ENABLED RemoveProtection(h, c)
        /\ IsUnprotected(repo[h]) =>
               /\ ENABLED ForcePush(h, c)
               /\ ENABLED ResetHard(h, c)
               /\ \A cb \in Callbacks : ENABLED FilterRepo(h, cb, c)

\* filter_repo on anima-mcp has just accepted a consent minted for force-pushing
\* 'my-repo', after remove_protection accepted one minted for the same.
C20_Witness ==
    /\ call.op = "filter_repo"
    /\ repo[call.h].name = "anima-mcp"
    /\ \A i \in 1..Len(consents) :
           consents[i]._operation
               = "Force-push 'my-repo' to origin/main, overwriting remote history"

\* C19: the i-th record of the consent log is the GRANTED record of the i-th
\* request_consent; print_audit_log lists the records numbered in that order
\* and leaves the log and the consents as they were.
C19_TrailInIssuanceOrder ==
    /\ [](\A i \in 1..Len(consent_log) :
              /\ i <= Len(consents)
              /\ consent_log[i] = "GRANTED: " \o consents[i]._operation)
    /\ [](call.op = "print_audit_log" =>
              /\ Len(stdout) = Len(consents) + 2
              /\ \A i \in 1..Len(consents) :
                     stdout[i + 2] = "    " \o ToString(i) \o ". GRANTED: "
                                         \o consents[i]._operation)
    /\ [][(call'.op = "request_consent" /\ Stepped) =>
              /\ call'.consent = Len(consent_log) + 1
              /\ entry_description(consent_log'[call'.consent]) = call'.input[1]]_vars
    /\ [][(call'.op = "print_audit_log" /\ Stepped) =>
              /\ consent_log' = consent_log
              /\ consents' = consents]_vars

\* print_audit_log has just listed three grants, the first for another
\* description than the last.
C19_Witness ==
    /\ call.op = "print_audit_log"
    /\ Len(consent_log) = 3
    /\ consent_log[1] # consent_log[3]
    /\ Len(stdout) = 5

\* The binding the workflow opened (the only one opened while it runs).
WorkflowHandle == CHOOSE h \in Handles : repo[h] # NoValue

\* C15: from a new gate, open, request_consent, remove_protection,
\* request_consent, force_push, restore_protection (each consent-taking call
\* passed the consent minted just before it) can be made one after the other for
\* every name, path, total_commits and descriptions, and end with a log of
\* exactly the two GRANTED records in request order and the handle Protected
\* with the name, path and total_commits it was opened with.
C15_LegitimateWorkflow ==
    /\ flow = 0 => \A h \in Handles : \A in \in OpenInputs :
                       ENABLED Open(h, in[1], in[2], in[3])
    /\ flow \in {1, 3} => \A d \in Descriptions : ENABLED RequestConsent(d)
    /\ flow = 2 => ENABLED RemoveProtection(WorkflowHandle, 1)
    /\ flow = 4 => ENABLED ForcePush(WorkflowHandle, 2)
    /\ flow = 5 => ENABLED RestoreProtection(WorkflowHandle)
    /\ flow = 6 =>
           /\ Len(consent_log) = 2
           /\ consent_log = <<"GRANTED: " \o consents[1]._operation,
                              "GRANTED: " \o consents[2]._operation>>
           /\ IsProtected(repo[WorkflowHandle])
           /\ repo[WorkflowHandle] = AsOpened(WorkflowHandle, "Protected")
           /\ \A h \in Handles : h # WorkflowHandle => repo[h] = NoValue

\* The workflow has run to its end on a repository of 549 commits, with the
\* removal requested first and the force-push second.
C15_Witness ==
    /\ flow = 6
    /\ call.op = "restore_protection"
    /\ repo[call.h].total_commits = 549
    /\ consents[1]._operation
           = "Remove branch protection on 'my-repo' to allow force-push"
    /\ consents[2]._operation
           = "Force-push 'my-repo' to origin/main, overwriting remote history"

\* C17: through a shared reference to a Protected repository only status,
\* commit and push can be called, whatever consents exist; the call of
\* agent_with_immutable_borrow takes no consent, moves nothing, and when it
\* returns every binding, the consents and the log are as they were, the
\* repository lent still Protected.
C17_BorrowerCannotConsume ==
    /\ [](\A h \in Handles : IsProtected(repo[h]) =>
              /\ BorrowedMethods(repo[h]) = {"status", "commit", "push"}
              /\ ENABLED AgentWithImmutableBorrow(h))
    /\ [][(call'.op = "agent_with_immutable_borrow" /\ Stepped) =>
              /\ IsProtected(repo[call'.h])
              /\ repo' = repo
              /\ moved_from' = moved_from
              /\ call'.consent = 0
              /\ consents' = consents
              /\ consent_log' = consent_log
              /\ spent' = spent]_vars

\* The agent has just returned the repository it was lent while a consent that
\* no call was passed yet is in existence.
C17_Witness ==
    /\ call.op = "agent_with_immutable_borrow"
    /\ IsProtected(repo[call.h])
    /\ Len(stdout) = 3
    /\ \E c \in 1..Len(consents) : c \notin spent

\* The values of the repository of binding h that can be used.
LiveValues(h) == {repo[h], moved_from[h]} \ {NoValue}

\* C18: an opened repository is held as exactly one usable value (a Protected
\* or Unprotected Repository, a FilteredRepository or a ResetRepository) and an
\* unopened one as none; a call that takes `self` leaves the value it returns
\* as the only one, the value it took being usable no longer.
C18_OneLiveValue ==
    /\ [](\A h \in Handles :
              Cardinality(LiveValues(h)) = IF opened[h] = <<>> THEN 0 ELSE 1)
    /\ [][(call'.op \in {"remove_protection", "filter_repo", "reset_hard",
                         "restore_protection"} /\ Stepped) =>
              /\ repo'[call'.h] # repo[call'.h]
              /\ {repo'[call'.h], moved_from'[call'.h]} \ {NoValue}
                     = {repo'[call'.h]}]_vars

\* remove_protection has just taken a Protected repository and returned it
\* Unprotected, the other binding holding a terminal value.
C18_Witness ==
    /\ call.op = "remove_protection"
    /\ IsUnprotected(repo[call.h])
    /\ \E h \in Handles : IsTerminal(repo[h])

\* C21: a grant is recorded when request_consent mints the consent and at no
\* other time: a step that changes the consent log is a request_consent, and
\* remove_protection, force_push, filter_repo, reset_hard and restore_protection
\* leave the consent log and the consents in existence as they were.
C21_RecordedAtMintOnly ==
    [][/\ consent_log' # consent_log =>
              /\ call'.op = "request_consent"
              /\ consent_log' = Append(consent_log, "GRANTED: " \o call'.input[1])
       /\ (call'.op = "request_consent" /\ Stepped) => consent_log' # consent_log
       /\ (call'.op \in {"remove_protection", "force_push", "filter_repo",
                         "reset_hard", "restore_protection"} /\ Stepped) =>
              /\ consent_log' = consent_log
              /\ consents' = consents]_vars

\* One grant was minted; remove_protection and then reset_hard were passed
\* it, and the log holds the one record written at minting.
C21_Witness ==
    /\ call.op = "reset_hard"
    /\ Len(consents) = 1
    /\ spent = {1}
    /\ consent_log
           = <<"GRANTED: Remove branch protection on 'my-repo' to allow force-push">>

\* C22: whatever calls were made on a binding opened with (name, path,
\* total_commits), the value it holds (a Protected or Unprotected Repository, a
\* FilteredRepository or a ResetRepository) has that name and path, and that
\* count as its total_commits (Repository) or rewritten_commits
\* (FilteredRepository); a ResetRepository has no count.
C22_DataPreserved ==
    \A h \in Handles : opened[h] # <<>> =>
        /\ IsRepository(repo[h]) \/ IsTerminal(repo[h])
        /\ repo[h].name = opened[h][1]
        /\ repo[h].path = opened[h][2]
        /\ IsRepository(repo[h]) => repo[h].total_commits = opened[h][3]
        /\ IsFiltered(repo[h]) => repo[h].rewritten_commits = opened[h][3]
        /\ IsReset(repo[h]) => DOMAIN repo[h] = {"type", "name", "path"}

\* One binding went through remove_protection and restore_protection and is
\* Protected again, the other was opened with 334 commits and has just been
\* taken by filter_repo.
C22_Witness ==
    /\ call.op = "filter_repo"
    /\ repo[call.h].rewritten_commits = 334
    /\ \E h \in Handles : trip[h] = "restored" /\ IsProtected(repo[h])

\* C23: a call on one binding (open, status, commit, push, remove_protection,
\* force_push, filter_repo, reset_hard, restore_protection, summary, or lending
\* it to the agent) leaves every other binding as it was: the same value, so the
\* same protection state, name, path and count.
C23_HandlesIndependent ==
    [][call'.h \in Handles =>
           \A g \in Handles \ {call'.h} :
               /\ repo'[g] = repo[g]
               /\ moved_from'[g] = moved_from[g]
               /\ opened'[g] = opened[g]]_vars

\* filter_repo has just taken one repository while the other binding holds an
\* Unprotected repository opened with the same name, path and total_commits.
C23_Witness ==
    /\ call.op = "filter_repo"
    /\ IsFiltered(repo[call.h])
    /\ \E g \in Handles \ {call.h} :
           /\ IsUnprotected(repo[g])
           /\ opened[g] = opened[call.h]

\* C24: request_consent changes the gate only: it adds a consent and a log
\* record, and leaves every binding as it was, whether it holds nothing, a
\* Protected or Unprotected Repository, a FilteredRepository or a
\* ResetRepository; no consent is used by it.
C24_RequestConsentChangesGateOnly ==
    [][(call'.op = "request_consent" /\ Stepped) =>
           /\ call'.h = NoHandle
           /\ Len(consents') = Len(consents) + 1
           /\ Len(consent_log') = Len(consent_log) + 1
           /\ repo' = repo
           /\ moved_from' = moved_from
           /\ opened' = opened
           /\ spent' = spent
           /\ \A h \in Handles : /\ IsProtected(repo[h]) => IsProtected(repo'[h])
                                 /\ IsTerminal(repo[h]) => repo'[h] = repo[h]]_vars

\* request_consent has just minted a consent while one binding holds a
\* Protected repository that never had its protection removed and the other a
\* FilteredRepository.
C24_Witness ==
    /\ call.op = "request_consent"
    /\ call.consent = Len(consents)
    /\ \E h \in Handles : IsProtected(repo[h]) /\ trip[h] = "opened"
    /\ \E h \in Handles : IsFiltered(repo[h])

=============================================================================
